---- MODULE Spec2Model ----
(***************************************************************************)
(* Attention modules of seq2seq/models/attention.py:                       *)
(*   GlobalAttention, SDPAttention, MultiHeadAttention.                    *)
(*                                                                         *)
(* A tensor is a nested sequence of floats (batch, time, feature); a float  *)
(* is a non-negative integer, +inf or NaN.  A score is a record: either    *)
(* negative infinity or the value num / dimk^0.5.  A softmax weight is     *)
(* kept symbolically as the entry x of the softmax of its row, classified  *)
(* as "zero" (exp(-inf), exactly 0), "nan" (row of all -inf, or a row with *)
(* a score that is +inf or NaN) or "exp" (positive).                       *)
(***************************************************************************)
EXTENDS Integers, Sequences, FiniteSets, TLC

\* ---------------------------------------------------------------- bounds
MaxB == 2
MaxT == 2
MaxD == 2
MaxHeads == 2

\* ------------------------------------------------------- IEEE floats
\* the float with the finite value n (n >= 0 for every tensor element here)
Fin(n) == [c |-> "fin", n |-> n]

\* float('inf')
PosInf == [c |-> "inf", n |-> 0]

\* the result of an invalid operation (0 * inf)
NaN == [c |-> "nan", n |-> 0]

\* finite element values of the input tensors
Vals == {Fin(0), Fin(1)}

\* element values of the input tensors, the non-finite +inf included
Floats == Vals \cup {PosInf}

\* a * b on non-negative floats: NaN absorbs, 0 * inf is NaN
FMul(a, b) ==
    IF a.c = "nan" \/ b.c = "nan" THEN NaN
    ELSE IF a.c = "fin" /\ b.c = "fin" THEN Fin(a.n * b.n)
    ELSE IF (a.c = "fin" /\ a.n = 0) \/ (b.c = "fin" /\ b.n = 0) THEN NaN
    ELSE PosInf

\* a + b on non-negative floats: NaN absorbs, then +inf
FAdd(a, b) ==
    IF a.c = "nan" \/ b.c = "nan" THEN NaN
    ELSE IF a.c = "inf" \/ b.c = "inf" THEN PosInf
    ELSE Fin(a.n + b.n)

\* ------------------------------------------------------- tensor helpers
RECURSIVE SeqSum(_)
SeqSum(s) == IF s = <<>> THEN Fin(0) ELSE FAdd(Head(s), SeqSum(Tail(s)))

Dot(a, b) == SeqSum([e \in 1..Len(a) |-> FMul(a[e], b[e])])

\* list(x.size()) of a 3-d tensor
Size3(x) == <<Len(x), Len(x[1]), Len(x[1][1])>>

\* the input tensor of a given shape used by the protocol specification
Ramp(b, t, d) ==
    [x \in 1..b |-> [i \in 1..t |-> [e \in 1..d |-> Fin((x + i + e) % 2)]]]

\* x with every element of time position p replaced by +inf (p = 0: none)
Spike(x, p) ==
    [b \in 1..Len(x) |-> [i \in 1..Len(x[b]) |-> [e \in 1..Len(x[b][i]) |->
        IF i = p THEN PosInf ELSE x[b][i][e]]]]

\* every tensor of a given shape over the element values S
Tensors(S, b, t, d) == [1..b -> [1..t -> [1..d -> S]]]

\* x with the elements of time position p replaced by kx
Perturb(x, p, kx) ==
    [b \in 1..Len(x) |-> [i \in 1..Len(x[b]) |-> [e \in 1..Len(x[b][i]) |->
        IF i = p THEN kx ELSE x[b][i][e]]]]

\* ---------------------------------------------------------------- masks
\* self.mask: None, or a 2-d byte tensor (rows x length), TRUE = suppress
None == [set |-> FALSE, rows |-> <<>>]

MaskOf(rows) == [set |-> TRUE, rows |-> rows]

\* every mask of up to MaxB rows and up to MaxT columns
Masks ==
    {None} \cup
    {MaskOf(r) : r \in UNION {[1..mb -> [1..m -> BOOLEAN]] :
                                 mb \in 1..MaxB, m \in 1..MaxT}}

\* a padding mask: the last p of m positions are flagged
PadMask(m, p) == MaskOf(<<[j \in 1..m |-> j > m - p]>>)

\* the arguments given to set_mask in call sequences: None, or a mask of
\* any length that flags nothing or its last position
MaskArgs ==
    {None} \cup {PadMask(m, p) : m \in 1..MaxT, p \in {0, 1}}

\* ---------------------------------------------------------------- scores
NegInf == [inf |-> TRUE, num |-> Fin(0), dimk |-> 0]

\* value n / dimk ** 0.5 of a float n (+inf and NaN stay what they are)
Finite(n, dimk) == [inf |-> FALSE, num |-> n, dimk |-> dimk]

\* torch.bmm(q, k.transpose(1, 2)) / (dim_k ** 0.5), b x t_q x t_k
ScaledScores(q, k) ==
    LET dim_k == Len(k[1][1])
    IN [x \in 1..Len(q) |-> [i \in 1..Len(q[1]) |-> [j \in 1..Len(k[1]) |->
            Finite(Dot(q[x][i], k[x][j]), dim_k)]]]

\* mask.unsqueeze(1).expand(b, t_q, t_k) is defined when every dimension of
\* the mask is 1 or the requested size
CanExpand(m, b, t_q, t_k) ==
    /\ Len(m.rows) \in {1, b}
    /\ Len(m.rows[1]) \in {1, t_k}

Expand(m, b, t_q, t_k) ==
    [x \in 1..b |-> [i \in 1..t_q |-> [j \in 1..t_k |->
        m.rows[IF Len(m.rows) = 1 THEN 1 ELSE x]
              [IF Len(m.rows[1]) = 1 THEN 1 ELSE j]]]]

\* variants of the causal mask: strictly below the diagonal, the diagonal
\* included, the first superdiagonal left out
CausalMask_lower(t_q, t_k) ==
    [i \in 1..t_q |-> [j \in 1..t_k |-> i - j >= 1]]

CausalMask_diag(t_q, t_k) ==
    [i \in 1..t_q |-> [j \in 1..t_k |-> j - i >= 0]]

CausalMask_off2(t_q, t_k) ==
    [i \in 1..t_q |-> [j \in 1..t_k |-> j - i >= 2]]

\* q.data.new(t_q, t_k).byte().fill_(1).triu_(1): ones strictly above the
\* main diagonal
CausalMask(t_q, t_k) ==
    [i \in 1..t_q |-> [j \in 1..t_k |-> j - i >= 1]]

\* causal_mask.unsqueeze(0).expand(b, t_q, t_k)
CausalExpand(b, t_q, t_k) ==
    [x \in 1..b |-> CausalMask(t_q, t_k)]

\* qk.data.masked_fill_(mask, -float('inf')) on a b x t_q x t_k tensor
MaskedFill(qk, m3) ==
    [x \in 1..Len(qk) |-> [i \in 1..Len(qk[x]) |-> [j \in 1..Len(qk[x][i]) |->
        IF m3[x][i][j] THEN NegInf ELSE qk[x][i][j]]]]

\* a score that is +inf or NaN after the masks were applied
NonFinite(s) == ~s.inf /\ s.num.c # "fin"

\* variant: a row of all -inf is given zero weights instead of NaN
SoftmaxRow_guarded(row) ==
    LET bad == \E j \in 1..Len(row) : NonFinite(row[j])
    IN [j \in 1..Len(row) |->
          [kind |-> IF bad THEN "nan"
                    ELSE IF row[j].inf THEN "zero" ELSE "exp",
           x |-> row[j], row |-> row]]

\* softmax of one row of scores: exp(x - max) / sum; a row of all -inf
\* gives exp(-inf - -inf) = NaN, a row holding +inf or NaN gives a NaN sum
SoftmaxRow(row) ==
    LET allInf == \A j \in 1..Len(row) : row[j].inf
        bad == \E j \in 1..Len(row) : NonFinite(row[j])
    IN [j \in 1..Len(row) |->
          [kind |-> IF allInf \/ bad THEN "nan"
                    ELSE IF row[j].inf THEN "zero" ELSE "exp",
           x |-> row[j], row |-> row]]

\* self.softmax(qk.view(-1, t_k)).view(b, t_q, t_k)
Softmax(qk) ==
    [x \in 1..Len(qk) |-> [i \in 1..Len(qk[x]) |-> SoftmaxRow(qk[x][i])]]

\* nn.Dropout(dropout) with the constructor default dropout=0
Dropout(sm) == sm

\* one product weight * value of a matrix product: a NaN weight or a NaN
\* value gives NaN, a weight that is exactly zero gives 0 with a finite
\* value and NaN with +inf (0 * inf), a positive weight scales the value
Term(w, val) ==
    [w |-> w,
     x |-> IF w.kind = "nan" \/ val.c = "nan" THEN NaN
           ELSE IF w.kind = "zero"
           THEN (IF val.c = "fin" THEN Fin(0) ELSE NaN)
           ELSE val]

\* the sum of the products of one output element: NaN as soon as one
\* product is NaN, otherwise kept as the sequence of its summands
Sum(terms) ==
    IF \E j \in 1..Len(terms) : terms[j].x.c = "nan"
    THEN [nan |-> TRUE, terms |-> <<>>]
    ELSE [nan |-> FALSE, terms |-> terms]

\* torch.bmm(sm_qk, v)
WeightedSum(sm, v) ==
    [x \in 1..Len(sm) |-> [i \in 1..Len(sm[x]) |-> [e \in 1..Len(v[x][1]) |->
        Sum([j \in 1..Len(sm[x][i]) |-> Term(sm[x][i][j], v[x][j][e])])]]]

\* ------------------------------------------------------- SDPAttention
\* variant: the assertion on the time lengths is missing
PreconditionsHold_noTime(sq, sk, sv) ==
    /\ sq[1] = sk[1] /\ sk[1] = sv[1]
    /\ sq[3] = sk[3]

\* the three assertions of SDPAttention.forward
PreconditionsHold(sq, sk, sv) ==
    /\ sq[1] = sk[1] /\ sk[1] = sv[1]
    /\ sq[3] = sk[3]
    /\ sk[2] = sv[2]

\* the result of a call that produced no output
Failed(outcome, sq, sk, sv, readMask, m, causal) ==
    [outcome |-> outcome, sq |-> sq, sk |-> sk, sv |-> sv,
     readMask |-> readMask, mask |-> m, causal |-> causal,
     qk |-> <<>>, sm |-> <<>>, out |-> <<>>]

\* SDPAttention.forward(q, k, v) with self.causal = causal; self.mask is read
\* twice: tested is what "self.mask is not None" gave at line 92, m is
\* self.mask as read at line 93 (without a concurrent set_mask, tested = m.set)
SDPForward(q, k, v, tested, m, causal) ==
    LET sq == Size3(q)
        sk == Size3(k)
        sv == Size3(v)
        b == sq[1]
        t_q == sq[2]
        t_k == sk[2]
    IN IF ~PreconditionsHold(sq, sk, sv)
       THEN Failed("AssertionError", sq, sk, sv, FALSE, None, causal)
       ELSE IF sq[1] # sk[1] \/ sq[3] # sk[3]
       THEN Failed("RuntimeError", sq, sk, sv, FALSE, None, causal)
       ELSE IF tested /\ ~m.set
       THEN Failed("AttributeError", sq, sk, sv, TRUE, m, causal)
       ELSE IF tested /\ ~CanExpand(m, b, t_q, t_k)
       THEN Failed("RuntimeError", sq, sk, sv, TRUE, m, causal)
       ELSE IF sv[1] # b \/ sv[2] # t_k
       THEN Failed("RuntimeError", sq, sk, sv, TRUE,
                   IF tested THEN m ELSE None, causal)
       ELSE
         LET qk0 == ScaledScores(q, k)
             qk1 == IF tested THEN MaskedFill(qk0, Expand(m, b, t_q, t_k))
                    ELSE qk0
             qk2 == IF causal THEN MaskedFill(qk1, CausalExpand(b, t_q, t_k))
                    ELSE qk1
             sm_qk == Dropout(Softmax(qk2))
         IN [outcome |-> "ok", sq |-> sq, sk |-> sk, sv |-> sv,
             readMask |-> TRUE, mask |-> IF tested THEN m ELSE None,
             causal |-> causal,
             qk |-> qk2, sm |-> sm_qk, out |-> WeightedSum(sm_qk, v)]

\* -------------------------------------------------------------- nn.Linear
\* the weight of nn.Linear(in_features, out_features): out x in, all ones
Weight(outF, inF) == [r \in 1..outF |-> [c \in 1..inF |-> Fin(1)]]

\* nn.Linear applied to one feature vector (bias absent or zero)
Linear(W, xvec) == [r \in 1..Len(W) |-> Dot(W[r], xvec)]

\* ---------------------------------------------------- GlobalAttention
\* attn.data.masked_fill_(self.mask, -inf) broadcasts the mask to
\* batch x sourceL
CanBroadcast2(m, batch, sourceL) ==
    /\ Len(m.rows) \in {1, batch}
    /\ Len(m.rows[1]) \in {1, sourceL}

MaskedFill2(attn, m) ==
    [x \in 1..Len(attn) |-> [s \in 1..Len(attn[x]) |->
        IF m.rows[IF Len(m.rows) = 1 THEN 1 ELSE x]
                 [IF Len(m.rows[1]) = 1 THEN 1 ELSE s]
        THEN NegInf ELSE attn[x][s]]]

\* self.linear_in(inputs) and torch.bmm(context, targetT) accept the sizes
GAShapesFit(inputs, context, dim) ==
    /\ Len(inputs[1]) = dim
    /\ Len(inputs) = Len(context[1])
    /\ Len(context[1][1]) = dim

\* GlobalAttention.forward(inputs, context) of a module built with dim
\* (context_dim=None, bias=False, batch_first=False); self.mask is read
\* twice: tested is what "self.mask is not None" gave at line 53, m is
\* self.mask as read at line 54 (without a concurrent set_mask, tested = m.set)
GAForward(inputs, context, tested, m, dim) ==
    LET sq == <<Len(inputs), Len(inputs[1])>>
        sk == Size3(context)
        sourceL == sk[1]
        batch == sk[2]
        context_dim == dim
        \* context.transpose(0, 1): batch x sourceL x dim
        ctx == [x \in 1..batch |-> [s \in 1..sourceL |-> context[s][x]]]
    IN IF ~GAShapesFit(inputs, context, dim)
       THEN Failed("RuntimeError", sq, sk, <<>>, FALSE, None, FALSE)
       ELSE IF tested /\ ~m.set
       THEN Failed("TypeError", sq, sk, <<>>, TRUE, m, FALSE)
       ELSE IF tested /\ ~CanBroadcast2(m, batch, sourceL)
       THEN Failed("RuntimeError", sq, sk, <<>>, TRUE, m, FALSE)
       ELSE
         LET targetT == [x \in 1..batch |->
                            Linear(Weight(context_dim, dim), inputs[x])]
             attn0 == [x \in 1..batch |-> [s \in 1..sourceL |->
                          Finite(Dot(ctx[x][s], targetT[x]), 1)]]
             attn1 == IF tested THEN MaskedFill2(attn0, m) ELSE attn0
             attn == [x \in 1..batch |-> SoftmaxRow(attn1[x])]
             weightedContext == [x \in 1..batch |-> [e \in 1..context_dim |->
                 Sum([s \in 1..sourceL |-> Term(attn[x][s], ctx[x][s][e])])]]
             contextOutput == [x \in 1..batch |-> [r \in 1..dim |->
                 [op |-> "tanh(linear_out)", row |-> r,
                  wc |-> weightedContext[x], inputs |-> inputs[x]]]]
         IN [outcome |-> "ok", sq |-> sq, sk |-> sk, sv |-> <<>>,
             readMask |-> TRUE, mask |-> IF tested THEN m ELSE None,
             causal |-> FALSE,
             qk |-> attn1, sm |-> attn, out |-> contextOutput]

\* ------------------------------------------------- MultiHeadAttention
\* x[:, :, lo..hi]
Slice(x, lo, hi) ==
    [b \in 1..Len(x) |-> [i \in 1..Len(x[b]) |->
        [e \in 1..(hi - lo + 1) |-> x[b][i][lo + e - 1]]]]

Min(a, b) == IF a <= b THEN a ELSE b

\* x.chunk(n, 2): pieces of ceil(D / n) features, the last one shorter
Chunk(x, n) ==
    LET D == Len(x[1][1])
        size == (D + n - 1) \div n
        count == (D + size - 1) \div size
    IN [c \in 1..count |-> Slice(x, (c - 1) * size + 1, Min(c * size, D))]

\* self.linear_x(x.view(-1, dim)).view(b, t, dim)
Project(x, input_size) ==
    [b \in 1..Len(x) |-> [i \in 1..Len(x[b]) |->
        Linear(Weight(input_size, input_size), x[b][i])]]

\* torch.cat(output, 2) followed by self.linear_out: every output row is
\* the output projection of the concatenated head rows
CatProject(output, output_size) ==
    [b \in 1..Len(output[1]) |-> [i \in 1..Len(output[1][b]) |->
        [r \in 1..output_size |->
            [op |-> "linear_out", row |-> r,
             cat |-> [h \in 1..Len(output) |-> output[h][b][i]]]]]]

\* ------------------------------------------------------------- the state
VARIABLES
    cls,                 \* class of the constructed module, "none" before
    cfg,                 \* its constructor arguments
    mask,                \* self.mask of a GlobalAttention or SDPAttention
    sdp_attention_mask,  \* self.sdp_attention.mask of a MultiHeadAttention
    lastSet,             \* argument of the most recent set_mask call
    res,                 \* what the most recent call returned or raised
    frame,               \* the running forward call
    args,                \* the arguments of a forward call about to be made
    ni                   \* a pair of forward calls on perturbed inputs

vars == <<cls, cfg, mask, sdp_attention_mask, lastSet, res, frame, args, ni>>

GA == "GlobalAttention"
SDP == "SDPAttention"
MHA == "MultiHeadAttention"

NoCfg == [dim |-> 0, input_size |-> 0, output_size |-> 0, num_heads |-> 0,
          causal |-> FALSE]

NoCall == Failed("none", <<>>, <<>>, <<>>, FALSE, None, FALSE)

\* the record of one call: operation, class, and what it produced
Res(op, c, arg, call, headMask, headCausal, raced) ==
    [op |-> op, cls |-> c, cfg |-> cfg, arg |-> arg, call |-> call,
     headMask |-> headMask, headCausal |-> headCausal, raced |-> raced]

NoRes == [op |-> "none", cls |-> "none", cfg |-> NoCfg, arg |-> None,
          call |-> NoCall, headMask |-> <<>>, headCausal |-> <<>>,
          raced |-> FALSE]

Idle == [pc |-> "idle", i |-> 0, qw |-> <<>>, kw |-> <<>>, vw |-> <<>>,
         sq |-> <<>>, sk |-> <<>>, sv |-> <<>>,
         output |-> <<>>, headMask |-> <<>>, headCausal |-> <<>>,
         sub |-> "test", seen |-> None, raced |-> FALSE]

NoArgs == [pc |-> "off", q |-> <<>>, k |-> <<>>, v |-> <<>>]

NIOff == [pc |-> "off", q |-> <<>>, k1 |-> <<>>, v1 |-> <<>>,
          k2 |-> <<>>, v2 |-> <<>>, out1 |-> <<>>, out2 |-> <<>>]

Init ==
    /\ cls = "none"
    /\ cfg = NoCfg
    /\ mask = None
    /\ sdp_attention_mask = None
    /\ lastSet = None
    /\ res = NoRes
    /\ frame = Idle
    /\ args = NoArgs
    /\ ni = NIOff

\* ------------------------------------------------------- construction
\* GlobalAttention.__init__(dim)
GlobalAttention_init ==
    /\ cls = "none"
    /\ \E dim \in 1..MaxD :
         /\ cfg' = [NoCfg EXCEPT !.dim = dim]
         /\ cls' = GA
         /\ mask' = None
         /\ lastSet' = None
         /\ res' = [NoRes EXCEPT !.op = "init", !.cls = GA, !.cfg = cfg',
                                 !.call.outcome = "ok"]
    /\ UNCHANGED <<sdp_attention_mask, frame, args, ni>>

\* SDPAttention.__init__(dropout=0, causal)
SDPAttention_init ==
    /\ cls = "none"
    /\ \E causal \in BOOLEAN :
         /\ cfg' = [NoCfg EXCEPT !.causal = causal]
         /\ cls' = SDP
         /\ mask' = None
         /\ lastSet' = None
         /\ res' = [NoRes EXCEPT !.op = "init", !.cls = SDP, !.cfg = cfg',
                                 !.call.outcome = "ok"]
    /\ UNCHANGED <<sdp_attention_mask, frame, args, ni>>

\* variant: the assertion is missing
Divisible_unchecked(input_size, num_heads) == TRUE

\* assert(input_size % num_heads == 0)
Divisible(input_size, num_heads) == input_size % num_heads = 0

\* MultiHeadAttention.__init__(input_size, output_size, num_heads, causal)
MultiHeadAttention_init ==
    /\ cls = "none"
    /\ \E input_size \in 1..MaxD, num_heads \in 1..MaxHeads, causal \in BOOLEAN :
         LET c == [NoCfg EXCEPT !.input_size = input_size,
                                !.output_size = input_size,
                                !.num_heads = num_heads, !.causal = causal]
         IN IF ~Divisible(input_size, num_heads)
            THEN /\ res' = [NoRes EXCEPT !.op = "init", !.cls = MHA, !.cfg = c,
                                         !.call.outcome = "AssertionError"]
                 /\ UNCHANGED <<cls, cfg, sdp_attention_mask, lastSet>>
            ELSE /\ cls' = MHA
                 /\ cfg' = c
                 /\ sdp_attention_mask' = None
                 /\ lastSet' = None
                 /\ res' = [NoRes EXCEPT !.op = "init", !.cls = MHA, !.cfg = c,
                                         !.call.outcome = "ok"]
    /\ UNCHANGED <<mask, frame, args, ni>>

\* ----------------------------------------------------------- set_mask
\* GlobalAttention.set_mask(mask); it may run while a forward call of
\* another thread is between its two reads of self.mask
GlobalAttention_set_mask ==
    /\ cls = GA
    /\ \E m \in MaskArgs :
         /\ mask' = m
         /\ lastSet' = m
         /\ res' = Res("set_mask", GA, m, NoCall, <<>>, <<>>, FALSE)
    /\ frame' = IF frame.pc # "idle" THEN [frame EXCEPT !.raced = TRUE]
                ELSE frame
    /\ UNCHANGED <<cls, cfg, sdp_attention_mask, args, ni>>

\* SDPAttention.set_mask(masked_tq); it may run while a forward call of
\* another thread is between its two reads of self.mask
SDPAttention_set_mask ==
    /\ cls = SDP
    /\ \E m \in MaskArgs :
         /\ mask' = m
         /\ lastSet' = m
         /\ res' = Res("set_mask", SDP, m, NoCall, <<>>, <<>>, FALSE)
    /\ frame' = IF frame.pc # "idle" THEN [frame EXCEPT !.raced = TRUE]
                ELSE frame
    /\ UNCHANGED <<cls, cfg, sdp_attention_mask, args, ni>>

\* variant: the mask is stored on the wrapper, not on self.sdp_attention
MultiHeadAttention_set_mask_onSelf ==
    /\ cls = MHA
    /\ \E m \in MaskArgs :
         /\ mask' = m
         /\ lastSet' = m
         /\ res' = Res("set_mask", MHA, m, NoCall, <<>>, <<>>, FALSE)
    /\ frame' = IF frame.pc # "idle" THEN [frame EXCEPT !.raced = TRUE]
                ELSE frame
    /\ UNCHANGED <<cls, cfg, sdp_attention_mask, args, ni>>

\* MultiHeadAttention.set_mask(masked_tq); it may run while a forward call
\* of another thread is between two head evaluations
MultiHeadAttention_set_mask ==
    /\ cls = MHA
    /\ \E m \in MaskArgs :
         /\ sdp_attention_mask' = m
         /\ lastSet' = m
         /\ res' = Res("set_mask", MHA, m, NoCall, <<>>, <<>>, FALSE)
    /\ frame' = IF frame.pc # "idle" THEN [frame EXCEPT !.raced = TRUE]
                ELSE frame
    /\ UNCHANGED <<cls, cfg, mask, args, ni>>

\* ------------------------------------------------------------ forward
\* GlobalAttention.forward(inputs, context), lines 47-53: the scores are
\* computed and "self.mask is not None" is evaluated on the stored mask
GlobalAttention_forward_test(inputs, context) ==
    /\ cls = GA
    /\ frame.pc = "idle"
    /\ IF ~GAShapesFit(inputs, context, cfg.dim)
       THEN /\ res' = Res("forward", GA, None,
                          GAForward(inputs, context, mask.set, mask, cfg.dim),
                          <<>>, <<>>, FALSE)
            /\ frame' = Idle
       ELSE /\ res' = Res("forward", GA, None,
                          Failed("running", <<Len(inputs), Len(inputs[1])>>,
                                 Size3(context), <<>>, FALSE, None, FALSE),
                          <<>>, <<>>, FALSE)
            /\ frame' = [Idle EXCEPT !.pc = "use", !.qw = inputs,
                                     !.kw = context, !.seen = mask]
    /\ UNCHANGED <<cls, cfg, mask, sdp_attention_mask, lastSet>>

\* GlobalAttention.forward, lines 54-63: if the test found a mask, the mask
\* stored now is filled in; then softmax, weighted context, output
GlobalAttention_forward ==
    /\ cls = GA
    /\ frame.pc = "use"
    /\ res' = Res("forward", GA, None,
                  GAForward(frame.qw, frame.kw, frame.seen.set, mask, cfg.dim),
                  <<>>, <<>>, frame.raced)
    /\ frame' = Idle
    /\ UNCHANGED <<cls, cfg, mask, sdp_attention_mask, lastSet>>

\* SDPAttention.forward(q, k, v), lines 83-92: the sizes are asserted, the
\* scores computed and "self.mask is not None" is evaluated on the stored
\* mask
SDPAttention_forward_test(q, k, v) ==
    /\ cls = SDP
    /\ frame.pc = "idle"
    /\ IF ~PreconditionsHold(Size3(q), Size3(k), Size3(v))
       THEN /\ res' = Res("forward", SDP, None,
                          SDPForward(q, k, v, mask.set, mask, cfg.causal),
                          <<>>, <<>>, FALSE)
            /\ frame' = Idle
       ELSE /\ res' = Res("forward", SDP, None,
                          Failed("running", Size3(q), Size3(k), Size3(v),
                                 FALSE, None, cfg.causal),
                          <<>>, <<>>, FALSE)
            /\ frame' = [Idle EXCEPT !.pc = "use", !.qw = q, !.kw = k,
                                     !.vw = v, !.seen = mask]
    /\ UNCHANGED <<cls, cfg, mask, sdp_attention_mask, lastSet>>

\* variant: the mask is consumed by the call
SDPAttention_forward_clears ==
    /\ cls = SDP
    /\ frame.pc = "use"
    /\ res' = Res("forward", SDP, None,
                  SDPForward(frame.qw, frame.kw, frame.vw, frame.seen.set,
                             mask, cfg.causal),
                  <<>>, <<>>, frame.raced)
    /\ frame' = Idle
    /\ mask' = None
    /\ UNCHANGED <<cls, cfg, sdp_attention_mask, lastSet>>

\* SDPAttention.forward, lines 93-101: if the test found a mask, the mask
\* stored now is expanded and filled in; then causal mask, softmax, output
SDPAttention_forward ==
    /\ cls = SDP
    /\ frame.pc = "use"
    /\ res' = Res("forward", SDP, None,
                  SDPForward(frame.qw, frame.kw, frame.vw, frame.seen.set,
                             mask, cfg.causal),
                  <<>>, <<>>, frame.raced)
    /\ frame' = Idle
    /\ UNCHANGED <<cls, cfg, mask, sdp_attention_mask, lastSet>>

\* MultiHeadAttention.forward(q, k, v), lines 127-136: project, chunk, and
\* enter the loop over the heads
MultiHeadAttention_forward_begin(q, k, v) ==
    /\ cls = MHA
    /\ frame.pc = "idle"
    /\ IF Len(q[1][1]) # cfg.input_size \/ Len(k[1][1]) # cfg.input_size
          \/ Len(v[1][1]) # cfg.input_size
       THEN /\ res' = Res("forward", MHA, None,
                          Failed("RuntimeError", Size3(q), Size3(k), Size3(v),
                                 FALSE, None, cfg.causal),
                          <<>>, <<>>, FALSE)
            /\ frame' = Idle
       ELSE /\ res' = Res("forward", MHA, None,
                          Failed("running", Size3(q), Size3(k), Size3(v),
                                 FALSE, None, cfg.causal),
                          <<>>, <<>>, FALSE)
            /\ frame' = [Idle EXCEPT
                   !.pc = "loop",
                   !.sq = Size3(q), !.sk = Size3(k), !.sv = Size3(v),
                   !.qw = Chunk(Project(q, cfg.input_size), cfg.num_heads),
                   !.kw = Chunk(Project(k, cfg.input_size), cfg.num_heads),
                   !.vw = Chunk(Project(v, cfg.input_size), cfg.num_heads)]
    /\ UNCHANGED <<cls, cfg, mask, sdp_attention_mask, lastSet, args, ni>>

\* one iteration of the loop, line 138 up to the test of line 92: the head
\* is called, the sizes are asserted and "self.mask is not None" is evaluated
\* on the mask the SDPAttention instance holds at that moment
MultiHeadAttention_forward_head_test ==
    /\ cls = MHA
    /\ frame.pc = "loop"
    /\ frame.sub = "test"
    /\ frame.i < cfg.num_heads
    /\ LET h == frame.i + 1
       IN IF h > Len(frame.qw)
          THEN /\ res' = Res("forward", MHA, None,
                             Failed("IndexError", frame.sq, frame.sk, frame.sv,
                                    FALSE, None, cfg.causal),
                             frame.headMask, frame.headCausal, frame.raced)
               /\ frame' = Idle
          ELSE IF ~PreconditionsHold(Size3(frame.qw[h]), Size3(frame.kw[h]),
                                     Size3(frame.vw[h]))
          THEN /\ res' = Res("forward", MHA, None,
                             SDPForward(frame.qw[h], frame.kw[h], frame.vw[h],
                                        sdp_attention_mask.set,
                                        sdp_attention_mask, cfg.causal),
                             frame.headMask, frame.headCausal, frame.raced)
               /\ frame' = Idle
          ELSE /\ frame' = [frame EXCEPT !.sub = "use",
                                         !.seen = sdp_attention_mask]
               /\ res' = res
    /\ UNCHANGED <<cls, cfg, mask, sdp_attention_mask, lastSet, args, ni>>

\* variant: the heads after the first reuse the mask the first head read
MultiHeadAttention_forward_head_stale ==
    /\ cls = MHA
    /\ frame.pc = "loop"
    /\ frame.sub = "use"
    /\ LET h == frame.i + 1
           m == IF frame.i = 0 THEN sdp_attention_mask ELSE frame.headMask[1]
           r == SDPForward(frame.qw[h], frame.kw[h], frame.vw[h],
                           IF frame.i = 0 THEN frame.seen.set ELSE m.set,
                           m, cfg.causal)
       IN IF r.outcome # "ok"
          THEN /\ res' = Res("forward", MHA, None, r, frame.headMask,
                             frame.headCausal, frame.raced)
               /\ frame' = Idle
          ELSE /\ frame' = [frame EXCEPT
                      !.i = h,
                      !.sub = "test",
                      !.output = Append(@, r.out),
                      !.headMask = Append(@, r.mask),
                      !.headCausal = Append(@, r.causal)]
               /\ res' = res
    /\ UNCHANGED <<cls, cfg, mask, sdp_attention_mask, lastSet, args, ni>>

\* the rest of the iteration, lines 93-101 and 139: if the test found a
\* mask, the head expands the mask the SDPAttention instance holds now
MultiHeadAttention_forward_head ==
    /\ cls = MHA
    /\ frame.pc = "loop"
    /\ frame.sub = "use"
    /\ LET h == frame.i + 1
           r == SDPForward(frame.qw[h], frame.kw[h], frame.vw[h],
                           frame.seen.set, sdp_attention_mask, cfg.causal)
       IN IF r.outcome # "ok"
          THEN /\ res' = Res("forward", MHA, None, r, frame.headMask,
                             frame.headCausal, frame.raced)
               /\ frame' = Idle
          ELSE /\ frame' = [frame EXCEPT
                      !.i = h,
                      !.sub = "test",
                      !.output = Append(@, r.out),
                      !.headMask = Append(@, r.mask),
                      !.headCausal = Append(@, r.causal)]
               /\ res' = res
    /\ UNCHANGED <<cls, cfg, mask, sdp_attention_mask, lastSet, args, ni>>

\* after the loop, lines 140-142: concatenate and project
MultiHeadAttention_forward_end ==
    /\ cls = MHA
    /\ frame.pc = "loop"
    /\ frame.sub = "test"
    /\ frame.i = cfg.num_heads
    /\ res' = Res("forward", MHA, None,
                  [Failed("ok", frame.sq, frame.sk, frame.sv, TRUE,
                          frame.headMask[1], cfg.causal)
                   EXCEPT !.out = CatProject(frame.output, cfg.output_size)],
                  frame.headMask, frame.headCausal, frame.raced)
    /\ frame' = Idle
    /\ UNCHANGED <<cls, cfg, mask, sdp_attention_mask, lastSet, args, ni>>

\* --------------------------------------------- calls in a call sequence
GlobalAttention_call ==
    /\ \E batch \in 1..MaxB, sourceL \in 1..MaxT, dim \in 1..MaxD :
         GlobalAttention_forward_test(Ramp(1, batch, dim)[1],
                                      Ramp(sourceL, batch, dim))
    /\ UNCHANGED <<args, ni>>

GlobalAttention_return ==
    /\ GlobalAttention_forward
    /\ UNCHANGED <<args, ni>>

SDPAttention_call ==
    /\ \E b_q \in 1..MaxB, b_k \in 1..MaxB, t \in 1..MaxT :
         SDPAttention_forward_test(Ramp(b_q, t, 1), Ramp(b_k, t, 1),
                                   Ramp(b_k, t, 1))
    /\ UNCHANGED <<args, ni>>

SDPAttention_return ==
    /\ SDPAttention_forward
    /\ UNCHANGED <<args, ni>>

MultiHeadAttention_call ==
    \E t \in 1..MaxT, d \in 1..MaxD :
        MultiHeadAttention_forward_begin(Ramp(1, t, d), Ramp(1, t, d),
                                         Ramp(1, t, d))

Next ==
    \/ GlobalAttention_init
    \/ SDPAttention_init
    \/ MultiHeadAttention_init
    \/ GlobalAttention_set_mask
    \/ SDPAttention_set_mask
    \/ MultiHeadAttention_set_mask
    \/ GlobalAttention_call
    \/ GlobalAttention_return
    \/ SDPAttention_call
    \/ SDPAttention_return
    \/ MultiHeadAttention_call
    \/ MultiHeadAttention_forward_head_test
    \/ MultiHeadAttention_forward_head
    \/ MultiHeadAttention_forward_end

Spec == Init /\ [][Next]_vars

\* ------------------------------------- one forward call on given inputs
\* a constructed module with a mask set, about to be called on args
InitFn ==
    /\ sdp_attention_mask = None
    /\ res = NoRes
    /\ frame = Idle
    /\ ni = NIOff
    /\ mask \in Masks
    /\ lastSet = mask
    /\ \/ /\ cls = SDP
          /\ \E causal \in BOOLEAN : cfg = [NoCfg EXCEPT !.causal = causal]
          /\ \E b \in 1..MaxB, t_q \in 1..MaxT, t_k \in 1..MaxT, d \in 1..MaxD :
               \E pk \in {0, t_k}, pv \in {0, t_k} :
                 args = [pc |-> "pending", q |-> Ramp(b, t_q, d),
                         k |-> Spike(Ramp(b, t_k, d), pk),
                         v |-> Spike(Ramp(b, t_k, d), pv)]
       \/ /\ cls = GA
          /\ \E dim \in 1..MaxD : cfg = [NoCfg EXCEPT !.dim = dim]
          /\ \E batch \in 1..MaxB, sourceL \in 1..MaxT, d \in 1..MaxD :
               args = [pc |-> "pending", q |-> Ramp(1, batch, d)[1],
                       k |-> Ramp(sourceL, batch, d), v |-> <<>>]

\* the call is made; it is over at once if the sizes are rejected
GlobalAttention_apply_test ==
    /\ args.pc = "pending"
    /\ GlobalAttention_forward_test(args.q, args.k)
    /\ args' = [args EXCEPT
                   !.pc = IF frame'.pc = "idle" THEN "done" ELSE "running"]
    /\ UNCHANGED ni

GlobalAttention_apply ==
    /\ args.pc = "running"
    /\ GlobalAttention_forward
    /\ args' = [args EXCEPT !.pc = "done"]
    /\ UNCHANGED ni

SDPAttention_apply_test ==
    /\ args.pc = "pending"
    /\ SDPAttention_forward_test(args.q, args.k, args.v)
    /\ args' = [args EXCEPT
                   !.pc = IF frame'.pc = "idle" THEN "done" ELSE "running"]
    /\ UNCHANGED ni

SDPAttention_apply ==
    /\ args.pc = "running"
    /\ SDPAttention_forward
    /\ args' = [args EXCEPT !.pc = "done"]
    /\ UNCHANGED ni

NextFn ==
    \/ GlobalAttention_apply_test
    \/ GlobalAttention_apply
    \/ SDPAttention_apply_test
    \/ SDPAttention_apply

SpecFn == InitFn /\ [][NextFn]_vars

\* an SDPAttention about to be called on q, k, v of arbitrary sizes
InitPre ==
    /\ sdp_attention_mask = None
    /\ res = NoRes
    /\ frame = Idle
    /\ ni = NIOff
    /\ mask \in {None, MaskOf(<<<<TRUE>>>>)}
    /\ lastSet = mask
    /\ cls = SDP
    /\ \E causal \in BOOLEAN : cfg = [NoCfg EXCEPT !.causal = causal]
    /\ \E b_q \in 1..MaxB, b_k \in 1..MaxB, b_v \in 1..MaxB,
          t_q \in 1..MaxT, t_k \in 1..MaxT, t_v \in 1..MaxT,
          dim_q \in 1..MaxD, dim_k \in 1..MaxD, dim_v \in 1..MaxD :
         args = [pc |-> "pending", q |-> Ramp(b_q, t_q, dim_q),
                 k |-> Ramp(b_k, t_k, dim_k), v |-> Ramp(b_v, t_v, dim_v)]

NextPre == SDPAttention_apply_test \/ SDPAttention_apply

SpecPre == InitPre /\ [][NextPre]_vars

\* ------------------------------ two causal calls on perturbed keys/values
\* a causal SDPAttention without mask, called on (q, k1, v1) and on
\* (q, k2, v2), which is (q, k1, v1) with the key and the value of one
\* position p replaced
InitNI ==
    /\ sdp_attention_mask = None
    /\ res = NoRes
    /\ frame = Idle
    /\ args = NoArgs
    /\ mask = None
    /\ lastSet = None
    /\ cls = SDP
    /\ cfg = [NoCfg EXCEPT !.causal = TRUE]
    /\ \E t_q \in 1..MaxT, t_k \in 1..MaxT :
         \E q \in Tensors(Vals, 1, t_q, 1),
            k1 \in Tensors(Vals, 1, t_k, 1), v1 \in Tensors(Floats, 1, t_k, 1),
            p \in 1..t_k, kx \in Floats, vx \in Floats :
           ni = [pc |-> "first", q |-> q, k1 |-> k1, v1 |-> v1,
                 k2 |-> Perturb(k1, p, kx), v2 |-> Perturb(v1, p, vx),
                 out1 |-> <<>>, out2 |-> <<>>]

SDPAttention_first_test ==
    /\ ni.pc = "first"
    /\ SDPAttention_forward_test(ni.q, ni.k1, ni.v1)
    /\ ni' = [ni EXCEPT !.pc = "first_use"]
    /\ UNCHANGED args

SDPAttention_first ==
    /\ ni.pc = "first_use"
    /\ SDPAttention_forward
    /\ ni' = [ni EXCEPT !.pc = "second", !.out1 = res'.call.out]
    /\ UNCHANGED args

SDPAttention_second_test ==
    /\ ni.pc = "second"
    /\ SDPAttention_forward_test(ni.q, ni.k2, ni.v2)
    /\ ni' = [ni EXCEPT !.pc = "second_use"]
    /\ UNCHANGED args

SDPAttention_second ==
    /\ ni.pc = "second_use"
    /\ SDPAttention_forward
    /\ ni' = [ni EXCEPT !.pc = "done", !.out2 = res'.call.out]
    /\ UNCHANGED args

NextNI ==
    \/ SDPAttention_first_test
    \/ SDPAttention_first
    \/ SDPAttention_second_test
    \/ SDPAttention_second

SpecNI == InitNI /\ [][NextNI]_vars

\* ============================================================ properties
\* whether mask m, broadcast over the query axis, flags key j of batch row x
Flagged(m, x, j) ==
    m.rows[IF Len(m.rows) = 1 THEN 1 ELSE x][IF Len(m.rows[1]) = 1 THEN 1 ELSE j]

\* the most recent call was a forward call of class c, and it is over
Forwarded(c) ==
    res.op = "forward" /\ res.cls = c /\ res.call.outcome # "running"

\* the mask field a forward call of the constructed module reads
StoredMask == IF cls = MHA THEN sdp_attention_mask ELSE mask

\* C1: SDPAttention.forward raises an assertion error, before any score is
\* computed and without output, exactly when the batch sizes of q, k, v are
\* not all equal, or the feature dimensions of q and k differ, or the time
\* lengths of k and v differ.
C1_PreconditionsValidated ==
    Forwarded(SDP) =>
        LET sq == Size3(args.q)
            sk == Size3(args.k)
            sv == Size3(args.v)
            violated == \/ ~(sq[1] = sk[1] /\ sk[1] = sv[1])
                        \/ sq[3] # sk[3]
                        \/ sk[2] # sv[2]
        IN /\ violated <=> res.call.outcome = "AssertionError"
           /\ violated => /\ res.call.qk = <<>>
                          /\ res.call.sm = <<>>
                          /\ res.call.out = <<>>
                          /\ ~res.call.readMask
           /\ ~violated => res.call.outcome = "ok"

\* a call with keys and values of different time lengths, and nothing else
\* wrong, was rejected
C1_Witness ==
    /\ Forwarded(SDP)
    /\ Size3(args.q)[1] = Size3(args.k)[1]
    /\ Size3(args.k)[1] = Size3(args.v)[1]
    /\ Size3(args.q)[3] = Size3(args.k)[3]
    /\ Size3(args.k)[2] # Size3(args.v)[2]
    /\ res.call.outcome = "AssertionError"

\* C2: the stored mask is always the argument of the most recent set_mask
\* call (None before any), a forward call (successful or failed) during
\* which no set_mask ran uses that mask, and every forward call leaves the
\* stored mask as it was; for MultiHeadAttention this is the mask every head
\* of the forward call used.
C2_MaskPersists ==
    /\ cls # "none" => StoredMask = lastSet
    /\ (res.op = "forward" /\ res.cls \in {GA, SDP} /\ res.call.readMask
        /\ ~res.raced)
           => res.call.mask = lastSet
    /\ (Forwarded(MHA) /\ ~res.raced)
           => /\ \A h \in 1..Len(res.headMask) : res.headMask[h] = lastSet
              /\ res.call.readMask => res.call.mask = lastSet

\* a failed forward call (the mask did not fit the keys) after a set_mask
\* with a mask
C2_Witness ==
    /\ Forwarded(SDP)
    /\ ~res.raced
    /\ res.call.outcome = "RuntimeError"
    /\ res.call.readMask
    /\ lastSet.set
    /\ mask = lastSet

\* C3 as stated: with causal enabled a score is negative infinity with
\* attention weight exactly 0 if and only if j > i or the mask flags it.
C3_Original ==
    (Forwarded(SDP) /\ res.call.outcome = "ok" /\ res.call.causal) =>
        \A x \in 1..Len(res.call.qk) :
          \A i \in 1..Len(res.call.qk[x]) :
            \A j \in 1..Len(res.call.qk[x][i]) :
              (res.call.qk[x][i][j].inf /\ res.call.sm[x][i][j].kind = "zero")
                 <=> (j > i \/ (mask.set /\ Flagged(mask, x, j)))

\* C3 amended: with causal enabled a score is negative infinity if and only
\* if j > i or the mask flags it; its weight is exactly 0 whenever the row
\* keeps an unsuppressed key and every unsuppressed score of the row is
\* finite, and NaN otherwise; applying the two masks in the other order
\* gives the same scores; with no mask exactly the strict upper triangle
\* is suppressed.
C3_CausalUnion ==
    (Forwarded(SDP) /\ res.call.outcome = "ok" /\ res.call.causal) =>
        LET qk == res.call.qk
            b == Len(qk)
            t_q == Len(qk[1])
            t_k == Len(qk[1][1])
            qk0 == ScaledScores(args.q, args.k)
            causalFirst == MaskedFill(qk0, CausalExpand(b, t_q, t_k))
            swapped == IF mask.set
                       THEN MaskedFill(causalFirst, Expand(mask, b, t_q, t_k))
                       ELSE causalFirst
        IN /\ \A x \in 1..b : \A i \in 1..t_q : \A j \in 1..t_k :
                /\ qk[x][i][j].inf
                      <=> (j > i \/ (mask.set /\ Flagged(mask, x, j)))
                /\ qk[x][i][j].inf =>
                      (res.call.sm[x][i][j].kind =
                         IF /\ \E j2 \in 1..t_k : ~qk[x][i][j2].inf
                            /\ \A j2 \in 1..t_k : ~NonFinite(qk[x][i][j2])
                         THEN "zero" ELSE "nan")
                /\ ~mask.set => (qk[x][i][j].inf <=> j > i)
           /\ swapped = qk

\* a causal call with a mask where one position is suppressed by the causal
\* mask only and one by the mask only, both with weight exactly 0
C3_Witness ==
    /\ Forwarded(SDP) /\ res.call.outcome = "ok" /\ res.call.causal
    /\ mask.set
    /\ \E x \in 1..Len(res.call.qk) :
         \E i \in 1..Len(res.call.qk[x]) :
           \E j \in 1..Len(res.call.qk[x][i]) :
             /\ j > i /\ ~Flagged(mask, x, j)
             /\ res.call.sm[x][i][j].kind = "zero"
    /\ \E x \in 1..Len(res.call.qk) :
         \E i \in 1..Len(res.call.qk[x]) :
           \E j \in 1..Len(res.call.qk[x][i]) :
             /\ j <= i /\ Flagged(mask, x, j)
             /\ res.call.sm[x][i][j].kind = "zero"

\* C4 as stated: with a mask of shape batch x t_q set, forward succeeds for
\* every t_q and t_k and suppresses exactly the positions the mask flags.
C4_Original ==
    (/\ Forwarded(SDP)
     /\ mask.set
     /\ Len(mask.rows) = Size3(args.q)[1]
     /\ Len(mask.rows[1]) = Size3(args.q)[2])
    => /\ res.call.outcome = "ok"
       /\ ~res.call.causal =>
            \A x \in 1..Len(res.call.qk) :
              \A i \in 1..Len(res.call.qk[x]) :
                \A j \in 1..Len(res.call.qk[x][i]) :
                  res.call.qk[x][i][j].inf <=> Flagged(mask, x, j)

\* C8: a query row whose keys are all suppressed, by the mask alone or by
\* the mask together with the causal mask, raises no error in
\* GlobalAttention.forward and SDPAttention.forward and gets no substitute
\* distribution: every attention weight of that row is NaN.
C8_DegenerateRowUnguarded ==
    /\ (Forwarded(SDP) /\ mask.set /\ res.call.outcome # "RuntimeError") =>
          LET b == Size3(args.q)[1]
              t_q == Size3(args.q)[2]
              t_k == Size3(args.k)[2]
          IN \A x \in 1..b : \A i \in 1..t_q :
                (\A j \in 1..t_k :
                    Flagged(mask, x, j) \/ (cfg.causal /\ j > i))
                => /\ res.call.outcome = "ok"
                   /\ \A j \in 1..t_k : res.call.sm[x][i][j].kind = "nan"
    /\ (Forwarded(GA) /\ mask.set /\ res.call.outcome # "RuntimeError") =>
          LET batch == Len(args.q)
              sourceL == Len(args.k)
          IN \A x \in 1..batch :
                (\A s \in 1..sourceL : Flagged(mask, x, s))
                => /\ res.call.outcome = "ok"
                   /\ \A s \in 1..sourceL : res.call.sm[x][s].kind = "nan"

\* a causal call where a row is fully suppressed only by the mask and the
\* causal mask together, while another row keeps a key
C8_Witness ==
    /\ Forwarded(SDP) /\ res.call.outcome = "ok" /\ cfg.causal /\ mask.set
    /\ \E x \in 1..Len(res.call.sm) :
         \E i \in 1..Len(res.call.sm[x]), i2 \in 1..Len(res.call.sm[x]) :
           /\ \A j \in 1..Len(res.call.sm[x][i]) :
                  res.call.sm[x][i][j].kind = "nan"
           /\ \E j \in 1..Len(res.call.sm[x][i]) : ~Flagged(mask, x, j)
           /\ \E j \in 1..Len(res.call.sm[x][i2]) :
                  res.call.sm[x][i2][j].kind = "exp"

\* C10: with causal enabled and no mask, every query row i keeps key 0 and
\* every key j <= i unsuppressed, so no row is all negative infinity (the
\* weight of key 0 is positive when the scores of the row are finite); a row
\* of all negative infinity occurs in SDPAttention.forward only with a mask
\* set.
C10_CausalKeepsAKey ==
    (Forwarded(SDP) /\ res.call.outcome = "ok") =>
        LET qk == res.call.qk
        IN /\ (res.call.causal /\ ~mask.set) =>
                 \A x \in 1..Len(qk) : \A i \in 1..Len(qk[x]) :
                    /\ ~qk[x][i][1].inf
                    /\ \A j \in 1..Len(qk[x][i]) : j <= i => ~qk[x][i][j].inf
                    /\ (\A j \in 1..Len(qk[x][i]) : ~NonFinite(qk[x][i][j]))
                          => res.call.sm[x][i][1].kind = "exp"
           /\ (\E x \in 1..Len(qk) : \E i \in 1..Len(qk[x]) :
                 \A j \in 1..Len(qk[x][i]) : qk[x][i][j].inf)
              => mask.set

\* a causal call without mask, more keys than queries, where the causal
\* mask suppresses a key of the first row
C10_Witness ==
    /\ Forwarded(SDP) /\ res.call.outcome = "ok"
    /\ res.call.causal /\ ~mask.set
    /\ Size3(args.k)[2] > Size3(args.q)[2]
    /\ res.call.qk[1][1][2].inf
    /\ ~res.call.qk[1][1][1].inf

\* C5: in a MultiHeadAttention.forward call during which no set_mask ran,
\* every head 0..num_heads-1 was evaluated with the same mask, the one given
\* to MultiHeadAttention.set_mask, and with the module's causal flag.
C5_HeadsShareMask ==
    (Forwarded(MHA) /\ res.call.outcome = "ok" /\ ~res.raced) =>
        /\ Len(res.headMask) = cfg.num_heads
        /\ Len(res.headCausal) = cfg.num_heads
        /\ \A h \in 1..cfg.num_heads :
              /\ res.headMask[h] = lastSet
              /\ res.headCausal[h] = cfg.causal
        /\ \A h1 \in 1..cfg.num_heads, h2 \in 1..cfg.num_heads :
              /\ res.headMask[h1] = res.headMask[h2]
              /\ res.headCausal[h1] = res.headCausal[h2]

\* a completed forward call of two heads after a set_mask with a mask
C5_Witness ==
    /\ Forwarded(MHA) /\ res.call.outcome = "ok" /\ ~res.raced
    /\ cfg.num_heads >= 2
    /\ lastSet.set
    /\ res.headMask[2] = lastSet

\* C6: constructing MultiHeadAttention fails with an assertion error exactly
\* when input_size is not a multiple of num_heads, and then no instance
\* exists; every instance that forward or set_mask runs on has input_size
\* divisible by num_heads.
C6_ConstructionChecked ==
    /\ (res.op = "init" /\ res.cls = MHA) =>
          /\ res.call.outcome = "AssertionError"
                <=> res.cfg.input_size % res.cfg.num_heads # 0
          /\ res.call.outcome = "AssertionError" => cls = "none"
          /\ res.call.outcome # "AssertionError"
                => (res.call.outcome = "ok" /\ cls = MHA /\ cfg = res.cfg)
    /\ cls = MHA => cfg.input_size % cfg.num_heads = 0
    /\ (frame.pc = "loop" \/ (res.cls = MHA /\ res.op \in {"forward", "set_mask"}))
          => (cls = MHA /\ cfg.input_size % cfg.num_heads = 0)

\* a construction with input_size not divisible by num_heads was rejected
C6_Witness ==
    /\ res.op = "init" /\ res.cls = MHA
    /\ res.cfg.input_size % res.cfg.num_heads # 0
    /\ res.call.outcome = "AssertionError"
    /\ cls = "none"

\* the two calls agree on the keys and values at all positions j <= i
AgreeUpTo(i) ==
    \A j \in 1..Len(ni.k1[1]) :
        j <= i => (ni.k1[1][j] = ni.k2[1][j] /\ ni.v1[1][j] = ni.v2[1][j])

\* every element of the float vector a is finite
AllFinite(a) == \A e \in 1..Len(a) : a[e].c = "fin"

\* C7 as stated: with causal enabled, no mask and no dropout, two calls with
\* the same queries whose keys and values agree at all positions j <= i give
\* the same output at query position i, whatever the keys and values at
\* j > i are.
C7_Original ==
    ni.pc = "done" =>
        \A i \in 1..Len(ni.q[1]) :
            AgreeUpTo(i) => ni.out1[1][i] = ni.out2[1][i]

\* C7 amended: with causal enabled, no mask and no dropout, two calls with
\* the same finite queries whose keys and values agree at all positions
\* j <= i and are finite there give the same output at query position i if
\* the values at all positions j > i are finite in both calls, whatever the
\* keys at j > i are; if they agree up to i and one call has a non-finite
\* value at some j > i and the other has none, the outputs at i differ (one
\* is NaN).
C7_FutureDoesNotLeak ==
    ni.pc = "done" =>
        \A i \in 1..Len(ni.q[1]) :
            LET t_k == Len(ni.k1[1])
                past == \A j \in 1..t_k : j <= i => AllFinite(ni.v1[1][j])
                fut1 == \A j \in 1..t_k : j > i => AllFinite(ni.v1[1][j])
                fut2 == \A j \in 1..t_k : j > i => AllFinite(ni.v2[1][j])
            IN (AgreeUpTo(i) /\ past) =>
                  /\ (fut1 /\ fut2) => ni.out1[1][i] = ni.out2[1][i]
                  /\ (fut1 # fut2) => ni.out1[1][i] # ni.out2[1][i]

\* two completed calls on finite values that agree up to a query position
\* and differ in a later value and in a later key that is +inf in one call
C7_Witness ==
    /\ ni.pc = "done"
    /\ \E i \in 1..Len(ni.q[1]) :
         /\ AgreeUpTo(i)
         /\ \A j \in 1..Len(ni.k1[1]) :
               AllFinite(ni.v1[1][j]) /\ AllFinite(ni.v2[1][j])
         /\ \E j \in 1..Len(ni.k1[1]) :
               /\ j > i
               /\ ni.k1[1][j] # ni.k2[1][j] /\ ~AllFinite(ni.k2[1][j])
               /\ ni.v1[1][j] # ni.v2[1][j]
         /\ ni.out1[1][i] = ni.out2[1][i]
         /\ ~ni.out1[1][i][1].nan

\* C9: forward reads the stored mask when it uses it, not when it was
\* called.  A head of a running MultiHeadAttention.forward applies the mask
\* stored at its line-93 read if its line-92 test found one and none
\* otherwise, so a head applies a mask other than the previous head's only
\* when a set_mask call landed during the forward call.  A forward call of
\* GlobalAttention or SDPAttention that returns applied the mask stored at
\* its second read if its test found one, and one that tested a mask and
\* finds None at the second read raises (TypeError, AttributeError); both
\* differ from the last set mask only when a set_mask call landed during
\* the call.
C9_MaskReadAtUse ==
    [][/\ (/\ frame.pc = "loop" /\ frame'.pc = "loop"
           /\ frame'.i = frame.i + 1)
          => /\ frame'.headMask[frame'.i]
                   = (IF frame.seen.set THEN sdp_attention_mask ELSE None)
             /\ ~frame.raced => frame'.headMask[frame'.i] = lastSet
             /\ (/\ frame.i >= 1
                 /\ frame'.headMask[frame'.i] # frame.headMask[frame.i])
                   => frame.raced
       /\ (frame.pc = "use" /\ frame'.pc = "idle")
          => /\ res'.call.outcome = "ok" =>
                   res'.call.mask = (IF frame.seen.set THEN mask ELSE None)
             /\ res'.call.outcome \in {"TypeError", "AttributeError"}
                   <=> (frame.seen.set /\ ~mask.set)
             /\ (\/ res'.call.outcome \in {"TypeError", "AttributeError"}
                 \/ (res'.call.outcome = "ok" /\ res'.call.mask # lastSet))
                   => frame.raced]_vars

\* a completed forward call whose heads applied different masks
C9_Witness ==
    /\ Forwarded(MHA) /\ res.call.outcome = "ok" /\ res.raced
    /\ Len(res.headMask) >= 2
    /\ res.headMask[1] # res.headMask[2]

====
